---- MODULE Spec2Model ----
(***************************************************************************)
(* A model of MecanikDev::TextTokenizer (src/Modern-Text-Tokenizer.hpp).   *)
(*                                                                         *)
(* Strings are sequences of bytes 0..255 (a char and the unsigned char of  *)
(* the same bit pattern are the same byte).  Source indices are 0-based;   *)
(* At(s, i) reads the byte at source index i.  The vector id_to_vocab_ is  *)
(* a sequence whose element id is at position id + 1.                      *)
(***************************************************************************)
EXTENDS Integers, Sequences, FiniteSets, TLC

VARIABLES
    delimiters_, lowercase_, keep_punctuation_, split_on_punctuation_,
    vocab_to_id_, id_to_vocab_,
    unk_token_, pad_token_, cls_token_, sep_token_,
    use_vocab_, unk_id_, pad_id_, cls_id_, sep_id_,
    text,   \* the text the caller holds and passes to the const methods
    call    \* the most recent completed call and what it returned

config == <<delimiters_, lowercase_, keep_punctuation_, split_on_punctuation_>>
special_tokens_ == <<unk_token_, pad_token_, cls_token_, sep_token_>>
special_ids_ == <<unk_id_, pad_id_, cls_id_, sep_id_>>
vocab == <<vocab_to_id_, id_to_vocab_, use_vocab_>>
vars == <<delimiters_, lowercase_, keep_punctuation_, split_on_punctuation_,
          vocab_to_id_, id_to_vocab_,
          unk_token_, pad_token_, cls_token_, sep_token_,
          use_vocab_, unk_id_, pad_id_, cls_id_, sep_id_, text, call>>

----------------------------------------------------------------------------
(* Bounds of the model *)

MaxLen == 4        \* longest enumerated text, in bytes (tokenizer specification)
MaxLength == 5     \* largest max_length passed to encode_sequence

\* the max_length arguments: a negative one, zero, and up to MaxLength
LengthInputs == (0..MaxLength) \cup {0 - 1}

----------------------------------------------------------------------------
(* Bytes and strings *)

Min(a, b) == IF a < b THEN a ELSE b

At(s, i) == s[i + 1]

\* std::string_view::substr(pos, n): at most n bytes from pos, clipped to the end
substr(s, pos, n) == SubSeq(s, pos + 1, Min(pos + n, Len(s)))

\* every sequence of at most n elements of S
RECURSIVE SeqsUpTo(_, _)
SeqsUpTo(S, n) ==
    IF n = 0 THEN {<<>>}
    ELSE LET shorter == SeqsUpTo(S, n - 1) IN
         shorter \cup {Append(s, x) : s \in {t \in shorter : Len(t) = n - 1}, x \in S}

\* "[UNK]", "[PAD]", "[CLS]", "[SEP]"
DefaultUnk == <<91, 85, 78, 75, 93>>
DefaultPad == <<91, 80, 65, 68, 93>>
DefaultCls == <<91, 67, 76, 83, 93>>
DefaultSep == <<91, 83, 69, 80, 93>>

\* ' ', '\t', '\n', '\r', '\f', '\v'
DefaultDelimiters == {32, 9, 10, 13, 12, 11}

----------------------------------------------------------------------------
(* Private helpers of TextTokenizer *)

\* (c & 0xE0) == 0xC0 is c \div 32 = 6, and so on
utf8_char_length(c) ==
    IF c < 128 THEN 1
    ELSE IF c \div 32 = 6 THEN 2
    ELSE IF c \div 16 = 14 THEN 3
    ELSE IF c \div 8 = 30 THEN 4
    ELSE 1

\* std::ispunct in the "C" locale
is_ascii_punct(c) ==
    c \in (33..47) \cup (58..64) \cup (91..96) \cup (123..126)

\* std::tolower in the "C" locale
to_ascii_lower(c) == IF c \in 65..90 THEN c + 32 ELSE c

RECURSIVE normalize_from(_, _)
normalize_from(token, i) ==
    IF i < Len(token)
    THEN LET c == At(token, i) IN
         IF c < 128
         THEN <<to_ascii_lower(c)>> \o normalize_from(token, i + 1)
         ELSE LET len == utf8_char_length(c) IN
              substr(token, i, len) \o normalize_from(token, i + len)
    ELSE <<>>

normalize_token(token) ==
    IF ~lowercase_ THEN token ELSE normalize_from(token, 0)

should_split_at(c) ==
    c \in delimiters_ \/ (split_on_punctuation_ /\ is_ascii_punct(c))

----------------------------------------------------------------------------
(* tokenize.  The token_view slices are kept as [pos, n] so that the       *)
(* boundaries of the tokens stay visible; a token is normalize_token of    *)
(* its slice.                                                              *)

View(pos, n) == [pos |-> pos, n |-> n]

\* the guard of the inner loop's push_back
run_keeps_punct_every(txt, i, start) ==
    keep_punctuation_ /\ is_ascii_punct(At(txt, i))

run_keeps_punct(txt, i, start) ==
    /\ keep_punctuation_
    /\ is_ascii_punct(At(txt, i))
    /\ i > start + (IF i - start > 0 THEN 1 ELSE 0)

\* the inner while loop: consumes the run of splitting bytes from i
RECURSIVE tokenize_run(_, _, _, _)
tokenize_run(txt, i, start, views) ==
    IF i < Len(txt) /\ should_split_at(At(txt, i))
    THEN tokenize_run(txt, i + 1, start,
            IF run_keeps_punct(txt, i, start)
            THEN Append(views, View(i, 1))
            ELSE views)
    ELSE [i |-> i, views |-> views]

\* the outer while loop and the final token
RECURSIVE tokenize_scan(_, _, _, _)

\* "start = i" after the run r, and on with the outer loop
tokenize_resume(txt, r) == tokenize_scan(txt, r.i, r.i, r.views)

tokenize_scan(txt, i, start, views) ==
    IF i < Len(txt)
    THEN LET c == At(txt, i) IN
         IF c >= 128
         THEN tokenize_scan(txt, i + utf8_char_length(c), start, views)
         ELSE IF should_split_at(c)
         THEN LET v1 == IF i > start /\ Len(substr(txt, start, i - start)) > 0
                        THEN Append(views, View(start, i - start))
                        ELSE views
                  v2 == IF keep_punctuation_ /\ is_ascii_punct(c)
                        THEN Append(v1, View(i, 1))
                        ELSE v1
              IN  tokenize_resume(txt, tokenize_run(txt, i, start, v2))
         ELSE tokenize_scan(txt, i + 1, start, views)
    ELSE IF start < Len(txt) /\ Len(substr(txt, start, Len(txt) - start)) > 0
         THEN Append(views, View(start, Len(txt) - start))
         ELSE views

tokenize_views(txt) == tokenize_scan(txt, 0, 0, <<>>)

tokenize(txt) ==
    LET views == tokenize_views(txt) IN
    [k \in 1..Len(views) |-> normalize_token(substr(txt, views[k].pos, views[k].n))]

----------------------------------------------------------------------------
(* count_tokens *)

\* the final "if (start < text.size()) count++"
count_final(txt, start) == IF start < Len(txt) THEN 1 ELSE 0

RECURSIVE count_run(_, _, _, _)
count_run(txt, i, start, count) ==
    IF i < Len(txt) /\ should_split_at(At(txt, i))
    THEN count_run(txt, i + 1, start,
            IF /\ keep_punctuation_
               /\ is_ascii_punct(At(txt, i))
               /\ i > start + (IF i - start > 0 THEN 1 ELSE 0)
            THEN count + 1
            ELSE count)
    ELSE [i |-> i, count |-> count]

RECURSIVE count_scan(_, _, _, _)

\* "start = i" after the run r, and on with the outer loop
count_resume(txt, r) == count_scan(txt, r.i, r.i, r.count)

count_scan(txt, i, start, count) ==
    IF i < Len(txt)
    THEN LET c == At(txt, i) IN
         IF c >= 128
         THEN count_scan(txt, i + utf8_char_length(c), start, count)
         ELSE IF should_split_at(c)
         THEN LET c1 == IF i > start THEN count + 1 ELSE count
                  c2 == IF keep_punctuation_ /\ is_ascii_punct(c) THEN c1 + 1 ELSE c1
              IN  count_resume(txt, count_run(txt, i, start, c2))
         ELSE count_scan(txt, i + 1, start, count)
    ELSE count + count_final(txt, start)

count_tokens(txt) == count_scan(txt, 0, 0, 0)

----------------------------------------------------------------------------
(* The record of the most recent call *)

NoCall ==
    [op |-> "none", tokens |-> <<>>, count |-> 0, ids |-> <<>>,
     max_length |-> 0, add_special_tokens |-> FALSE, raised |-> FALSE,
     str |-> <<>>, ok |-> TRUE]

----------------------------------------------------------------------------
(* Construction and the fluent setters *)

Constructed ==
    /\ delimiters_ = DefaultDelimiters
    /\ lowercase_ = FALSE
    /\ keep_punctuation_ = FALSE
    /\ split_on_punctuation_ = FALSE
    /\ vocab_to_id_ = <<>>
    /\ id_to_vocab_ = <<>>
    /\ unk_token_ = DefaultUnk
    /\ pad_token_ = DefaultPad
    /\ cls_token_ = DefaultCls
    /\ sep_token_ = DefaultSep
    /\ use_vocab_ = FALSE
    /\ unk_id_ = -1
    /\ pad_id_ = -1
    /\ cls_id_ = -1
    /\ sep_id_ = -1
    /\ call = NoCall

set_lowercase(enable) ==
    /\ lowercase_' = enable
    /\ call' = NoCall
    /\ UNCHANGED <<delimiters_, keep_punctuation_, split_on_punctuation_,
                   vocab, special_tokens_, special_ids_, text>>

set_keep_punctuation(enable) ==
    /\ keep_punctuation_' = enable
    /\ call' = NoCall
    /\ UNCHANGED <<delimiters_, lowercase_, split_on_punctuation_,
                   vocab, special_tokens_, special_ids_, text>>

set_split_on_punctuation(enable) ==
    /\ split_on_punctuation_' = enable
    /\ call' = NoCall
    /\ UNCHANGED <<delimiters_, lowercase_, keep_punctuation_,
                   vocab, special_tokens_, special_ids_, text>>

add_delimiter(delim) ==
    /\ delimiters_' = delimiters_ \cup {delim}
    /\ call' = NoCall
    /\ UNCHANGED <<lowercase_, keep_punctuation_, split_on_punctuation_,
                   vocab, special_tokens_, special_ids_, text>>

add_delimiters(delims) ==
    /\ delimiters_' = delimiters_ \cup {delims[k] : k \in 1..Len(delims)}
    /\ call' = NoCall
    /\ UNCHANGED <<lowercase_, keep_punctuation_, split_on_punctuation_,
                   vocab, special_tokens_, special_ids_, text>>

----------------------------------------------------------------------------
(* Vocabulary installation *)

set_special_tokens(unk, pad, cls, sep) ==
    /\ unk_token_' = unk
    /\ pad_token_' = pad
    /\ cls_token_' = cls
    /\ sep_token_' = sep
    /\ call' = NoCall
    /\ UNCHANGED <<config, vocab, special_ids_, text>>

\* vocab_to_id_[token] = id
MapPut(m, k, v) == [x \in DOMAIN m \cup {k} |-> IF x = k THEN v ELSE m[x]]

\* token.erase(token.find_last_not_of(" \t\r\n") + 1)
RECURSIVE rtrim(_)
rtrim(s) ==
    IF Len(s) > 0 /\ s[Len(s)] \in {32, 9, 13, 10}
    THEN rtrim(SubSeq(s, 1, Len(s) - 1))
    ELSE s

\* the four ids a load or a build starts from: the members as they are
CurrentIds == [unk |-> unk_id_, pad |-> pad_id_, cls |-> cls_id_, sep |-> sep_id_]

\* if (token == unk_token_) unk_id_ = id; else if (token == pad_token_) ...
store_special_id(ids, token, id) ==
    IF token = unk_token_ THEN [ids EXCEPT !.unk = id]
    ELSE IF token = pad_token_ THEN [ids EXCEPT !.pad = id]
    ELSE IF token = cls_token_ THEN [ids EXCEPT !.cls = id]
    ELSE IF token = sep_token_ THEN [ids EXCEPT !.sep = id]
    ELSE ids

EmptyVocab(ids) == [to_id |-> <<>>, to_vocab |-> <<>>, ids |-> ids, id |-> 0]

\* the body of load_vocab's while loop for one line of the file
load_line(v, line) ==
    LET token == rtrim(line) IN
    IF token # <<>>
    THEN [to_id    |-> MapPut(v.to_id, token, v.id),
          to_vocab |-> Append(v.to_vocab, token),
          ids      |-> store_special_id(v.ids, token, v.id),
          id       |-> v.id + 1]
    ELSE v

RECURSIVE load_lines(_, _, _)
load_lines(lines, k, v) ==
    IF k <= Len(lines) THEN load_lines(lines, k + 1, load_line(v, lines[k])) ELSE v

\* a vocabulary file: whether it can be opened, and its lines
File(lines) == [is_open |-> TRUE, lines |-> lines]
NoFile == [is_open |-> FALSE, lines |-> <<>>]

load_vocab(file) ==
    IF ~file.is_open
    THEN /\ call' = [NoCall EXCEPT !.op = "load_vocab", !.ok = FALSE]
         /\ UNCHANGED <<config, vocab, special_tokens_, special_ids_, text>>
    ELSE \E v \in {load_lines(file.lines, 1, EmptyVocab(CurrentIds))} :
         /\ vocab_to_id_' = v.to_id
         /\ id_to_vocab_' = v.to_vocab
         /\ unk_id_' = v.ids.unk
         /\ pad_id_' = v.ids.pad
         /\ cls_id_' = v.ids.cls
         /\ sep_id_' = v.ids.sep
         /\ use_vocab_' = TRUE
         /\ call' = [NoCall EXCEPT !.op = "load_vocab", !.ok = TRUE]
         /\ UNCHANGED <<config, special_tokens_, text>>

RECURSIVE Concat(_, _)
Concat(seqs, k) == IF k <= Len(seqs) THEN seqs[k] \o Concat(seqs, k + 1) ELSE <<>>

\* token_counts after the counting loop: every token of every text
CorpusTokens(texts) == Concat([k \in 1..Len(texts) |-> tokenize(texts[k])], 1)

\* token_counts[token]++ for every token of every text
token_counts_of(all) ==
    [t \in {all[k] : k \in 1..Len(all)} |->
        Cardinality({k \in 1..Len(all) : all[k] = t})]

\* every arrangement of the set S in a sequence
RECURSIVE Arrangements(_)
Arrangements(S) ==
    IF S = {} THEN {<<>>}
    ELSE UNION {{<<x>> \o p : p \in Arrangements(S \ {x})} : x \in S}

\* sorted_tokens: the tokens of frequency min_frequency or more, by
\* descending frequency.  The order of tokens of equal frequency is that of
\* std::sort over the iteration order of an unordered_map: any order.
SortedTokens(token_counts, min_frequency) ==
    LET kept == {t \in DOMAIN token_counts : token_counts[t] >= min_frequency} IN
    {s \in Arrangements(kept) :
        \A a \in 1..(Len(s) - 1) : ~(token_counts[s[a + 1]] > token_counts[s[a]])}

\* "Add special tokens first": one pass of the loop over special_tokens
add_special_token(v, token) ==
    IF token \notin DOMAIN v.to_id
    THEN LET id == Len(v.to_vocab) IN
         [to_id    |-> MapPut(v.to_id, token, id),
          to_vocab |-> Append(v.to_vocab, token),
          ids      |-> store_special_id(v.ids, token, id),
          id       |-> v.id]
    ELSE v

\* "Add regular tokens": v.id counts the tokens added so far
add_regular_token(v, token, max_vocab_size) ==
    IF token \notin DOMAIN v.to_id /\ v.id < max_vocab_size - 4
    THEN LET id == Len(v.to_vocab) IN
         [to_id    |-> MapPut(v.to_id, token, id),
          to_vocab |-> Append(v.to_vocab, token),
          ids      |-> v.ids,
          id       |-> v.id + 1]
    ELSE v

RECURSIVE add_regular_tokens(_, _, _, _)
add_regular_tokens(sorted, k, v, max_vocab_size) ==
    IF k <= Len(sorted)
    THEN add_regular_tokens(sorted, k + 1,
                            add_regular_token(v, sorted[k], max_vocab_size),
                            max_vocab_size)
    ELSE v

built_vocab_unk_first(sorted, max_vocab_size) ==
    LET s1 == add_special_token(EmptyVocab(CurrentIds), unk_token_)
        s2 == add_special_token(s1, pad_token_)
        s3 == add_special_token(s2, cls_token_)
        s4 == add_special_token(s3, sep_token_)
    IN  add_regular_tokens(sorted, 1, s4, max_vocab_size)

\* the vocabulary and the ids that build_vocab_from_text leaves, given the
\* order that the sort produced
built_vocab(sorted, max_vocab_size) ==
    LET s1 == add_special_token(EmptyVocab(CurrentIds), pad_token_)
        s2 == add_special_token(s1, unk_token_)
        s3 == add_special_token(s2, cls_token_)
        s4 == add_special_token(s3, sep_token_)
    IN  add_regular_tokens(sorted, 1, s4, max_vocab_size)

build_vocab_from_text(texts, min_frequency, max_vocab_size) ==
    \E sorted \in SortedTokens(token_counts_of(CorpusTokens(texts)), min_frequency) :
    \E v \in {built_vocab(sorted, max_vocab_size)} :
       /\ vocab_to_id_' = v.to_id
       /\ id_to_vocab_' = v.to_vocab
       /\ unk_id_' = v.ids.unk
       /\ pad_id_' = v.ids.pad
       /\ cls_id_' = v.ids.cls
       /\ sep_id_' = v.ids.sep
       /\ use_vocab_' = TRUE
       /\ call' = [NoCall EXCEPT !.op = "build_vocab_from_text"]
       /\ UNCHANGED <<config, special_tokens_, text>>

----------------------------------------------------------------------------
(* The vocabulary specification: a constructed tokenizer and any sequence  *)
(* of set_special_tokens, load_vocab and build_vocab_from_text calls.      *)

MaxLines == 2      \* most lines in a vocabulary file
MaxTexts == 2      \* most texts in a corpus

WordA == <<97>>

\* "[UNK]", "a", "a " and an empty line
VocabLines == {DefaultUnk, WordA, <<97, 32>>, <<>>}
VocabFiles == {File(lines) : lines \in SeqsUpTo(VocabLines, MaxLines)} \cup {NoFile}

\* the defaults; unk or pad an ordinary word; unk and pad the same string
SpecialTokenSettings ==
    { <<DefaultUnk, DefaultPad, DefaultCls, DefaultSep>>,
      <<WordA, DefaultPad, DefaultCls, DefaultSep>>,
      <<DefaultUnk, WordA, DefaultCls, DefaultSep>>,
      <<DefaultUnk, DefaultUnk, DefaultCls, DefaultSep>> }

\* "a b", "[PAD] a"
CorpusTexts == { <<97, 32, 98>>, DefaultPad \o <<32, 97>> }
Corpora == SeqsUpTo(CorpusTexts, MaxTexts)
MinFrequencies == {1, 2}
\* the default max_vocab_size is 50000
MaxVocabSizes == {5, 50000}

InitVocab ==
    /\ Constructed
    /\ text = <<>>

NextVocab ==
    \/ \E st \in SpecialTokenSettings : set_special_tokens(st[1], st[2], st[3], st[4])
    \/ \E file \in VocabFiles : load_vocab(file)
    \/ \E texts \in Corpora, mf \in MinFrequencies, mv \in MaxVocabSizes :
          build_vocab_from_text(texts, mf, mv)

SpecVocab == InitVocab /\ [][NextVocab]_vars

----------------------------------------------------------------------------
(* The const methods, applied to the text the caller holds *)

Tokenize ==
    /\ call' = [NoCall EXCEPT !.op = "tokenize", !.tokens = tokenize(text)]
    /\ UNCHANGED <<config, vocab, special_tokens_, special_ids_, text>>

CountTokens ==
    /\ call' = [NoCall EXCEPT !.op = "count_tokens", !.count = count_tokens(text)]
    /\ UNCHANGED <<config, vocab, special_tokens_, special_ids_, text>>

----------------------------------------------------------------------------
(* encode, decode and encode_sequence *)

lookup_id_miss_unresolved(token) ==
    IF token \in DOMAIN vocab_to_id_ THEN vocab_to_id_[token] ELSE 0 - 1

\* vocab_to_id_.find(token): the id of a hit, unk_id_ for a miss
lookup_id(token) ==
    IF token \in DOMAIN vocab_to_id_ THEN vocab_to_id_[token] ELSE unk_id_

encode(txt) ==
    LET tokens == tokenize(txt) IN
    IF ~use_vocab_
    THEN [k \in 1..Len(tokens) |-> k - 1]
    ELSE [k \in 1..Len(tokens) |-> lookup_id(tokens[k])]

decode_skips_nothing(token) == FALSE

\* "if (token == pad_token_) continue"
decode_skips(token) == token = pad_token_

id_in_range_above_zero(id) == id > 0 /\ id < Len(id_to_vocab_)

\* "if (id >= 0 && id < static_cast<int>(id_to_vocab_.size()))"
id_in_range(id) == id >= 0 /\ id < Len(id_to_vocab_)

\* the loop of decode from the k-th id on; first is the flag of the source
RECURSIVE decode_from(_, _, _)
decode_from(ids, k, first) ==
    IF k <= Len(ids)
    THEN LET id == ids[k] IN
         IF id_in_range(id)
         THEN LET token == id_to_vocab_[id + 1] IN
              IF decode_skips(token)
              THEN decode_from(ids, k + 1, first)
              ELSE (IF ~first THEN <<32>> ELSE <<>>) \o token
                   \o decode_from(ids, k + 1, FALSE)
         ELSE decode_from(ids, k + 1, first)
    ELSE <<>>

decode(ids) == IF ~use_vocab_ THEN <<>> ELSE decode_from(ids, 1, TRUE)

Returned(ids) == [raised |-> FALSE, ids |-> ids]
Raised == [raised |-> TRUE, ids |-> <<>>]

\* std::vector<int>::resize(n) with n an int: a negative n converts to a
\* size_t above max_size() and resize throws std::length_error
vector_resize(v, n) ==
    IF n < 0 THEN Raised
    ELSE IF n <= Len(v) THEN Returned(SubSeq(v, 1, n))
    ELSE Returned(v \o [k \in 1..(n - Len(v)) |-> 0])

available_length_of_original(max_length) ==
    max_length - (IF sep_id_ >= 0 THEN 1 ELSE 0)

\* max_length after "max_length--" for a valid cls, less one for a valid sep
available_length(max_length) ==
    (IF cls_id_ >= 0 THEN max_length - 1 ELSE max_length)
        - (IF sep_id_ >= 0 THEN 1 ELSE 0)

copy_count_all(size, available) == size

\* std::min(static_cast<int>(token_ids.size()), available_length)
copy_count(size, available) == Min(size, available)

\* encode_sequence once "auto token_ids = encode(text)" is done
sequence_of(token_ids, max_length, add_special_tokens) ==
    IF ~add_special_tokens \/ ~use_vocab_
    THEN IF Len(token_ids) > max_length
         THEN vector_resize(token_ids, max_length)
         ELSE Returned(token_ids)
    ELSE LET n == copy_count(Len(token_ids), available_length(max_length)) IN
         Returned((IF cls_id_ >= 0 THEN <<cls_id_>> ELSE <<>>)
                  \o [i \in 1..n |-> token_ids[i]]
                  \o (IF sep_id_ >= 0 THEN <<sep_id_>> ELSE <<>>))

encode_sequence(txt, max_length, add_special_tokens) ==
    sequence_of(encode(txt), max_length, add_special_tokens)

Encode ==
    /\ call' = [NoCall EXCEPT !.op = "encode", !.ids = encode(text)]
    /\ UNCHANGED <<config, vocab, special_tokens_, special_ids_, text>>

Decode(ids) ==
    /\ call' = [NoCall EXCEPT !.op = "decode", !.ids = ids, !.str = decode(ids)]
    /\ UNCHANGED <<config, vocab, special_tokens_, special_ids_, text>>

\* a call of encode_sequence(text, max_length, add_special_tokens) for any
\* of the max_length arguments and either flag
EncodeSequence ==
    /\ \E token_ids \in {encode(text)} :
       \E max_length \in LengthInputs, add_special_tokens \in BOOLEAN :
       \E r \in {sequence_of(token_ids, max_length, add_special_tokens)} :
          call' = [NoCall EXCEPT !.op = "encode_sequence",
                                 !.max_length = max_length,
                                 !.add_special_tokens = add_special_tokens,
                                 !.raised = r.raised,
                                 !.ids = r.ids]
    /\ UNCHANGED <<config, vocab, special_tokens_, special_ids_, text>>

----------------------------------------------------------------------------
(* The sequence specification: a constructed tokenizer, a text of words,   *)
(* the configuration the demonstrations use, vocabularies loaded from      *)
(* files, and encode, decode and encode_sequence.                          *)

MaxWords == 3      \* most "A" words in a text
\* k times "A", separated by single spaces
RECURSIVE Words(_)
Words(k) ==
    IF k = 0 THEN <<>>
    ELSE IF k = 1 THEN <<65>>
    ELSE Words(k - 1) \o <<32, 65>>

\* "", "A", "A A", ..., and "b!" alone and after the longest of them
SeqTexts ==
    {Words(k) : k \in 0..MaxWords}
    \cup {<<98, 33>>, Words(MaxWords) \o <<32, 98, 33>>}

\* the files: "[CLS]", "a", "[SEP]" with any of the three lines left out
SeqVocabLines == <<DefaultCls, WordA, DefaultSep>>
Keep(lines, kept) ==
    LET Kept(k) == k \in kept IN
    SelectSeq([k \in 1..Len(lines) |-> <<k, lines[k]>>], LAMBDA e : Kept(e[1]))
SeqVocabFiles ==
    {File([k \in 1..Len(Keep(SeqVocabLines, kept)) |-> Keep(SeqVocabLines, kept)[k][2]]) :
        kept \in SUBSET (1..Len(SeqVocabLines))}

\* the defaults; pad an ordinary word
SeqSpecialTokenSettings ==
    { <<DefaultUnk, DefaultPad, DefaultCls, DefaultSep>>,
      <<DefaultUnk, WordA, DefaultCls, DefaultSep>> }

\* what decode is given: the ids of the text, or one id below, in or above
\* the valid range
DecodeInputs == {encode(text), <<0 - 1>>, <<0>>, <<Len(SeqVocabLines)>>}

InitSeq ==
    /\ Constructed
    /\ text \in SeqTexts

NextSeq ==
    \/ set_lowercase(TRUE)
    \/ set_split_on_punctuation(TRUE)
    \/ \E st \in SeqSpecialTokenSettings : set_special_tokens(st[1], st[2], st[3], st[4])
    \/ \E file \in SeqVocabFiles : load_vocab(file)
    \/ Encode
    \/ \E ids \in DecodeInputs : Decode(ids)
    \/ EncodeSequence

SpecSeq == InitSeq /\ [][NextSeq]_vars

----------------------------------------------------------------------------
(* The decode specification: a constructed tokenizer, special token        *)
(* strings set, vocabularies loaded from files, and decode of any sequence *)
(* of up to MaxIds ids below, in or above the valid range.                 *)

MaxIds == 3        \* most ids in a sequence given to decode

\* a file with the pad and cls tokens and a word, one with the unk token and
\* the word, one with the sep token alone, and a file that does not open
DecVocabFiles ==
    { File(<<DefaultPad, DefaultCls, WordA>>),
      File(<<DefaultUnk, WordA>>),
      File(<<DefaultSep>>),
      NoFile }

\* one below the first id up to the last id of the longest vocabulary
DecIds == (0 - 1)..2

InitDec ==
    /\ Constructed
    /\ text = <<>>

NextDec ==
    \/ \E st \in SeqSpecialTokenSettings : set_special_tokens(st[1], st[2], st[3], st[4])
    \/ \E file \in DecVocabFiles : load_vocab(file)
    \/ \E ids \in SeqsUpTo(DecIds, MaxIds) : Decode(ids)

SpecDec == InitDec /\ [][NextDec]_vars

----------------------------------------------------------------------------
(* The encode specification: a constructed tokenizer, a text of words,     *)
(* lowercase and punctuation splitting switched on, special token strings  *)
(* set, vocabularies loaded from files, and encode.                        *)

\* a file with the pad and unk tokens and a word, one with the word alone,
\* one with the word before and after the unk token, and a file that does
\* not open
EncVocabFiles ==
    { File(<<DefaultPad, DefaultUnk, WordA>>),
      File(<<WordA>>),
      File(<<WordA, DefaultUnk, WordA>>),
      NoFile }

InitEnc ==
    /\ Constructed
    /\ text \in SeqTexts

NextEnc ==
    \/ set_lowercase(TRUE)
    \/ set_split_on_punctuation(TRUE)
    \/ \E st \in SeqSpecialTokenSettings : set_special_tokens(st[1], st[2], st[3], st[4])
    \/ \E file \in EncVocabFiles : load_vocab(file)
    \/ Encode

SpecEnc == InitEnc /\ [][NextEnc]_vars

----------------------------------------------------------------------------
(* The tokenizer specification: a constructed tokenizer, any text of up to *)
(* MaxLen bytes of TokBytes or one of the example texts, any sequence of   *)
(* configuration calls, tokenize and count_tokens.                        *)

\* ' ', '!', 'A', the two-byte lead 0xC3, the three-byte lead 0xE2 and the
\* continuation byte 0xA9
TokBytes == {32, 33, 65, 195, 226, 169}

\* "Hello, world!" and "!!!"
HelloWorld == <<72, 101, 108, 108, 111, 44, 32, 119, 111, 114, 108, 100, 33>>
ThreeBangs == <<33, 33, 33>>
ExampleTexts == {HelloWorld, ThreeBangs}

TokTexts == SeqsUpTo(TokBytes, MaxLen) \cup ExampleTexts

\* delimiters a caller adds: '!' and the lead byte 0xC3
ExtraDelimiters == {33, 195}
ExtraDelimiterStrings == {<<33, 195>>}

InitTok ==
    /\ Constructed
    /\ text \in TokTexts

NextTok ==
    \/ \E enable \in BOOLEAN : set_lowercase(enable)
    \/ \E enable \in BOOLEAN : set_keep_punctuation(enable)
    \/ \E enable \in BOOLEAN : set_split_on_punctuation(enable)
    \/ \E delim \in ExtraDelimiters : add_delimiter(delim)
    \/ \E delims \in ExtraDelimiterStrings : add_delimiters(delims)
    \/ Tokenize
    \/ CountTokens

SpecTok == InitTok /\ [][NextTok]_vars

----------------------------------------------------------------------------
\* C1: whatever the text and the configuration, count_tokens returns the
\* number of tokens that tokenize returns for the same text.
CountMatchesTokenize ==
    /\ call.op = "count_tokens" => call.count = Len(tokenize(text))
    /\ call.op = "tokenize" => Len(call.tokens) = count_tokens(text)

CountMatchesTokenizeWitness ==
    /\ call.op = "count_tokens"
    /\ call.count >= 3
    /\ keep_punctuation_
    /\ \E k \in 1..Len(text) : text[k] >= 128
    /\ \E k \in 1..Len(text) : is_ascii_punct(text[k])

----------------------------------------------------------------------------
(* What keeping punctuation means when every punctuation byte splits: the  *)
(* word fragments between the splitting bytes, and each punctuation byte   *)
(* once, in text order.                                                    *)

RECURSIVE PunctOnceViews(_, _, _)
PunctOnceViews(txt, i, start) ==
    IF i < Len(txt)
    THEN LET c == At(txt, i) IN
         IF c >= 128
         THEN PunctOnceViews(txt, i + utf8_char_length(c), start)
         ELSE IF should_split_at(c)
         THEN (IF i > start THEN <<View(start, i - start)>> ELSE <<>>)
              \o (IF is_ascii_punct(c) THEN <<View(i, 1)>> ELSE <<>>)
              \o PunctOnceViews(txt, i + 1, i + 1)
         ELSE PunctOnceViews(txt, i + 1, start)
    ELSE IF start < Len(txt) THEN <<View(start, Len(txt) - start)>> ELSE <<>>

PunctOnceTokens(txt) ==
    LET views == PunctOnceViews(txt, 0, 0) IN
    [k \in 1..Len(views) |-> normalize_token(substr(txt, views[k].pos, views[k].n))]

\* "hello", ",", "world", "!"
HelloWorldTokens ==
    <<<<104, 101, 108, 108, 111>>, <<44>>, <<119, 111, 114, 108, 100>>, <<33>>>>

\* C2: with keep_punctuation and split_on_punctuation both set (and the
\* delimiters of the constructor), tokenize returns the word fragments and
\* every ASCII punctuation byte exactly once as a one-byte token, in text
\* order, and nothing for whitespace; with lowercase "Hello, world!" gives
\* "hello" "," "world" "!" and "!!!" gives three "!".
PunctuationEmittedOnce ==
    (call.op = "tokenize" /\ keep_punctuation_ /\ split_on_punctuation_
        /\ delimiters_ = DefaultDelimiters)
    => /\ call.tokens = PunctOnceTokens(text)
       /\ (text = HelloWorld /\ lowercase_) => call.tokens = HelloWorldTokens
       /\ text = ThreeBangs => call.tokens = <<<<33>>, <<33>>, <<33>>>>

----------------------------------------------------------------------------
\* A well-formed multi-byte character starts at source index p: a lead byte
\* of declared length 2..4 followed by that many continuation bytes less one.
IsMultiByteAt(txt, p) ==
    LET len == utf8_char_length(At(txt, p)) IN
    /\ At(txt, p) >= 128
    /\ len >= 2
    /\ p + len <= Len(txt)
    /\ \A q \in (p + 1)..(p + len - 1) : At(txt, q) \in 128..191

\* C10: for every text and every configuration, added delimiters included,
\* every multi-byte character of the text lies whole inside one token:
\* none of its bytes is dropped as a delimiter and no token starts or ends
\* inside it.
MultiByteNeverSplit ==
    call.op = "tokenize"
    => LET views == tokenize_views(text) IN
       \A p \in 0..(Len(text) - 1) :
          IsMultiByteAt(text, p)
          => \E k \in 1..Len(views) :
                /\ views[k].pos <= p
                /\ p + utf8_char_length(At(text, p)) <= views[k].pos + views[k].n

----------------------------------------------------------------------------
(* Claims about encode_sequence *)

\* the ids of cls and sep that encode_sequence puts around the content
ClsPart == IF cls_id_ >= 0 THEN <<cls_id_>> ELSE <<>>
SepPart == IF sep_id_ >= 0 THEN <<sep_id_>> ELSE <<>>
ValidMarkers == Len(ClsPart) + Len(SepPart)

\* C3: with add_special_tokens, whatever the text, max_length and the
\* vocabulary, the returned sequence is at most max_length long.
SequenceWithinMaxLength ==
    (call.op = "encode_sequence" /\ call.add_special_tokens /\ ~call.raised)
    => Len(call.ids) <= call.max_length

\* C3 as amended: with add_special_tokens and a max_length that is at least
\* the number of valid ids among cls and sep, encode_sequence returns, and
\* the returned sequence is at most max_length long.
SequenceWithinMaxLengthWhenMarkersFit ==
    (call.op = "encode_sequence" /\ call.add_special_tokens
        /\ call.max_length >= ValidMarkers)
    => ~call.raised /\ Len(call.ids) <= call.max_length

SequenceWithinMaxLengthWitness ==
    /\ call.op = "encode_sequence"
    /\ call.add_special_tokens
    /\ cls_id_ >= 0
    /\ sep_id_ >= 0
    /\ call.max_length = 3
    /\ Len(encode(text)) >= 2
    /\ Len(call.ids) = 3

\* C4: with a vocabulary and add_special_tokens, encode_sequence returns the
\* cls id if it is valid, then the first min(n, B) ids of encode(text), then
\* the sep id if it is valid, where n is the number of ids of encode(text)
\* and B is max_length less one for each valid id among cls and sep; with
\* both valid, max_length 5 and n >= 3 that is cls, three ids, sep.
SequenceAssembly ==
    (call.op = "encode_sequence" /\ call.add_special_tokens /\ use_vocab_)
    => LET ids == encode(text)
           B == call.max_length - ValidMarkers
       IN  /\ ~call.raised
           /\ call.ids = ClsPart \o SubSeq(ids, 1, Min(Len(ids), B)) \o SepPart
           /\ (cls_id_ >= 0 /\ sep_id_ >= 0 /\ call.max_length = 5 /\ Len(ids) >= 3)
              => /\ Len(call.ids) = 5
                 /\ call.ids[1] = cls_id_
                 /\ call.ids[5] = sep_id_
                 /\ SubSeq(call.ids, 2, 4) = SubSeq(ids, 1, 3)

SequenceAssemblyWitness ==
    /\ call.op = "encode_sequence"
    /\ call.add_special_tokens
    /\ use_vocab_
    /\ cls_id_ >= 0
    /\ sep_id_ >= 0
    /\ cls_id_ # sep_id_
    /\ call.max_length = 5
    /\ Len(encode(text)) >= 4
    /\ Len(call.ids) = 5

\* C9: for max_length zero or negative, with or without add_special_tokens
\* and with or without a vocabulary, encode_sequence returns without an
\* error, and returns no content id: at most the valid cls and sep ids when
\* they are asked for.
NonPositiveLengthCopiesNothing ==
    (call.op = "encode_sequence" /\ call.max_length <= 0)
    => /\ ~call.raised
       /\ call.ids = IF call.add_special_tokens /\ use_vocab_
                     THEN ClsPart \o SepPart
                     ELSE <<>>

----------------------------------------------------------------------------
(* Claims about the vocabulary *)

Resolved(id, token) ==
    /\ id = -1 <=> token \notin DOMAIN vocab_to_id_
    /\ token \in DOMAIN vocab_to_id_ => id = vocab_to_id_[token]

\* C5: after any sequence of set_special_tokens, load_vocab and
\* build_vocab_from_text, each of the unk, pad, cls and sep ids is -1 exactly
\* when its configured string is not an entry of the installed vocabulary,
\* and is the id of that entry otherwise.
SpecialIdsResolved ==
    /\ Resolved(unk_id_, unk_token_)
    /\ Resolved(pad_id_, pad_token_)
    /\ Resolved(cls_id_, cls_token_)
    /\ Resolved(sep_id_, sep_token_)

\* C6: after every load_vocab and build_vocab_from_text, whatever the lines,
\* repeated ones included, the two maps have the same number of entries, the
\* ids are 0..N-1, and each map is the inverse of the other.
VocabMapsConsistent ==
    call.op \in {"load_vocab", "build_vocab_from_text"}
    => /\ Cardinality(DOMAIN vocab_to_id_) = Len(id_to_vocab_)
       /\ \A t \in DOMAIN vocab_to_id_ :
             /\ vocab_to_id_[t] \in 0..(Len(id_to_vocab_) - 1)
             /\ id_to_vocab_[vocab_to_id_[t] + 1] = t
       /\ \A i \in 0..(Len(id_to_vocab_) - 1) :
             /\ id_to_vocab_[i + 1] \in DOMAIN vocab_to_id_
             /\ vocab_to_id_[id_to_vocab_[i + 1]] = i

SpecialsFirst ==
    /\ Len(id_to_vocab_) >= 4
    /\ SubSeq(id_to_vocab_, 1, 4) = <<pad_token_, unk_token_, cls_token_, sep_token_>>
    /\ <<pad_id_, unk_id_, cls_id_, sep_id_>> = <<0, 1, 2, 3>>

\* C8: whatever the corpus, min_frequency, max_vocab_size and the special
\* token strings, build_vocab_from_text leaves pad, unk, cls and sep at ids
\* 0, 1, 2 and 3, and the four resolved ids distinct and not negative.
BuildPutsSpecialsFirst ==
    call.op = "build_vocab_from_text" => SpecialsFirst

DistinctSpecialTokens ==
    Cardinality({pad_token_, unk_token_, cls_token_, sep_token_}) = 4

\* C8 as amended: the same, for special token strings that are pairwise
\* distinct.
BuildPutsDistinctSpecialsFirst ==
    (call.op = "build_vocab_from_text" /\ DistinctSpecialTokens) => SpecialsFirst

BuildPutsDistinctSpecialsFirstWitness ==
    /\ call.op = "build_vocab_from_text"
    /\ DistinctSpecialTokens
    /\ unk_token_ = WordA
    /\ Len(id_to_vocab_) > 4
    /\ DefaultPad \in DOMAIN vocab_to_id_

----------------------------------------------------------------------------
(* Claims about decode after encode *)

RECURSIVE JoinSpaces(_)
JoinSpaces(tokens) ==
    IF Len(tokens) = 0 THEN <<>>
    ELSE IF Len(tokens) = 1 THEN tokens[1]
    ELSE tokens[1] \o <<32>> \o JoinSpaces(Tail(tokens))

RoundTripCase ==
    /\ call.op = "decode"
    /\ call.ids = encode(text)
    /\ use_vocab_
    /\ lowercase_
    /\ split_on_punctuation_
    /\ \A k \in 1..Len(tokenize(text)) : tokenize(text)[k] \in DOMAIN vocab_to_id_

\* C7: with a vocabulary, lowercase and punctuation splitting, and every
\* token of the text in the vocabulary, decode(encode(text)) is the tokens
\* of tokenize(text) joined by single spaces, whatever the special token
\* strings.
RoundTripJoinsTokens ==
    RoundTripCase => call.str = JoinSpaces(tokenize(text))

NotPad(token) == token # pad_token_

\* C7 as amended: ... decode(encode(text)) is the tokens of tokenize(text)
\* other than those equal to the pad token string, joined by single spaces.
RoundTripJoinsTokensButPad ==
    RoundTripCase => call.str = JoinSpaces(SelectSeq(tokenize(text), NotPad))

RoundTripJoinsTokensButPadWitness ==
    /\ RoundTripCase
    /\ Len(tokenize(text)) >= 2
    /\ call.str = <<97, 32, 97>>

----------------------------------------------------------------------------
(* Claims about decode *)

\* an id decode writes a token for
DecodeEmits(id) ==
    /\ id >= 0
    /\ id < Len(id_to_vocab_)
    /\ id_to_vocab_[id + 1] # pad_token_

DecodedTokens(ids) ==
    LET kept == SelectSeq(ids, DecodeEmits) IN
    [k \in 1..Len(kept) |-> id_to_vocab_[kept[k] + 1]]

----------------------------------------------------------------------------
(* Claims about encode *)

\* the id the k-th token of the text is to get (k from 1, positions of the
\* source from 0)
ExpectedId(tokens, k) ==
    IF use_vocab_
    THEN IF tokens[k] \in DOMAIN vocab_to_id_
         THEN vocab_to_id_[tokens[k]]
         ELSE unk_id_
    ELSE k - 1

\* C12: encode(text) returns exactly one id per token of tokenize(text), in
\* the same order: with a vocabulary installed the id of a token that is a
\* vocabulary entry is its token_to_id and the id of any other token is the
\* resolved unk id, which may be -1; with no vocabulary installed the id at
\* position k is k.
EncodeMapsTokens ==
    call.op = "encode" =>
        LET tokens == tokenize(text) IN
        /\ ~call.raised
        /\ Len(call.ids) = Len(tokens)
        /\ \A k \in 1..Len(tokens) : call.ids[k] = ExpectedId(tokens, k)

\* encode with the unk token in the vocabulary, of a text with a token that
\* is a vocabulary entry before one that is not
EncodeMapsTokensWitness ==
    /\ call.op = "encode"
    /\ use_vocab_
    /\ unk_id_ >= 0
    /\ Len(call.ids) >= 2
    /\ tokenize(text)[1] \in DOMAIN vocab_to_id_
    /\ call.ids[1] = vocab_to_id_[tokenize(text)[1]]
    /\ call.ids[1] # unk_id_
    /\ tokenize(text)[Len(call.ids)] \notin DOMAIN vocab_to_id_
    /\ call.ids[Len(call.ids)] = unk_id_

====
